---------------------------- MODULE Spec2Model ----------------------------
(***************************************************************************)
(* A model of CSPT_tool/extract-paths.js: the path extractor, the          *)
(* parameter substitution, the URL-list canonicalizer and the command line *)
(* driver.  A JavaScript string is a sequence of one-character strings, so *)
(* that regular expressions, includes/startsWith, sort, join and split are *)
(* computed on characters.  A run of main is a sequence of steps over the  *)
(* command line and the file system it finds.                              *)
(***************************************************************************)
EXTENDS Integers, Sequences, FiniteSets, TLC

VARIABLES
  \* extractPaths called alone
  content,      \* the text of one file
  returned,     \* the array it returns
  epc,          \* "start" | "done" ("idle" in the other specifications)
  \* replacePaths called alone
  pathStr,      \* the template
  domain,       \* the domain
  replaced,     \* its local constant of that name
  url,          \* the string it returns
  rpc,          \* "start" | "done" ("idle" in the other specifications)
  \* a run of main
  argv,         \* process.argv.slice(2)
  urlsFile,     \* file system: what the -urls argument names
  jsTree,       \* file system: what the -js argument names
  cwdWritable,  \* file system: whether the output files can be written
  config,       \* main: the result of parseArgs
  pc,           \* the statement the run is at
  exit,         \* "running" | "returned" | "exit1" | "uncaught"
  printed,      \* the kinds of messages written to the console
  lineIndex,    \* processUrlList: number of lines the loop has handled
  results,      \* processUrlList: per line, the URL added or Skipped
  output,       \* processUrlList: the Set output, in insertion order
  waymoreTxt,   \* the file CSPT_magun4_waymore.txt
  stack,        \* getAllJsFiles: the directories being listed
  jsFiles,      \* main: the array jsFiles
  fileIndex,    \* main: number of files the loop has handled
  allPaths,     \* main: the Set allPaths, in insertion order
  pathsTxt,     \* the file paths.txt
  csptTxt       \* the file CSPT_magun4.txt

extractVars == <<content, returned, epc>>
replaceVars == <<pathStr, domain, replaced, url, rpc>>
pureVars == <<extractVars, replaceVars>>
fsVars == <<argv, urlsFile, jsTree, cwdWritable>>
listVars == <<lineIndex, results, output, waymoreTxt>>
scanVars == <<stack, jsFiles, fileIndex, allPaths, pathsTxt, csptTxt>>
mainVars == <<fsVars, config, pc, exit, printed, listVars, scanVars>>
vars == <<pureVars, mainVars>>

---------------------------------------------------------------------------
(* Bounds of the model.                                                    *)

\* Longest file content drawn character by character.
MaxContentLen == 6
\* Longest template drawn character by character (its leading / included).
MaxTemplateLen == 6
\* Longest domain drawn character by character.
MaxDomainLen == 3
\* Longest query string drawn character by character.
MaxQueryLen == 5
\* Most lines of a URL list drawn from the chosen lines.
MaxLines == 2
\* Most entries of the scanned directory.
MaxEntries == 2
\* Most command line arguments.
MaxArgs == 6

---------------------------------------------------------------------------
(* Characters and strings.                                                 *)

\* The grave accent (code 96), which a string of this language cannot hold.
Backtick == "GRAVE"

\* The printable ASCII characters in code order, 32 (space) to 126 (~).
Ascii ==
  <<" ", "!", "\"", "#", "$", "%", "&", "'", "(", ")", "*", "+", ",", "-",
    ".", "/", "0", "1", "2", "3", "4", "5", "6", "7", "8", "9", ":", ";",
    "<", "=", ">", "?", "@", "A", "B", "C", "D", "E", "F", "G", "H", "I",
    "J", "K", "L", "M", "N", "O", "P", "Q", "R", "S", "T", "U", "V", "W",
    "X", "Y", "Z", "[", "\\", "]", "^", "_", Backtick, "a", "b", "c", "d",
    "e", "f", "g", "h", "i", "j", "k", "l", "m", "n", "o", "p", "q", "r", "s", "t",
    "u", "v", "w", "x", "y", "z", "{", "|", "}", "~">>

\* The UTF-16 code unit of a character (line feed is 10).
CodeOf ==
  [c \in {Ascii[i] : i \in 1..Len(Ascii)} \cup {"\n"} |->
     IF c = "\n" THEN 10 ELSE 31 + CHOOSE i \in 1..Len(Ascii) : Ascii[i] = c]

Lower == {Ascii[i] : i \in 66..91}
Upper == {Ascii[i] : i \in 34..59}
Digit == {Ascii[i] : i \in 17..26}
Letter == Lower \cup Upper

Range(s) == {s[i] : i \in 1..Len(s)}

SeqsUpTo(S, n) == UNION {[1..k -> S] : k \in 0..n}

\* String.prototype.startsWith
StartsWith(s, pre) ==
  /\ Len(pre) <= Len(s)
  /\ SubSeq(s, 1, Len(pre)) = pre

\* String.prototype.endsWith
EndsWith(s, suf) ==
  /\ Len(suf) <= Len(s)
  /\ SubSeq(s, Len(s) - Len(suf) + 1, Len(s)) = suf

\* String.prototype.includes
Includes(s, sub) ==
  \E i \in 1..(Len(s) - Len(sub) + 1) : SubSeq(s, i, i + Len(sub) - 1) = sub

\* Set.prototype.add on a Set kept in insertion order
SetAdd(seq, x) == IF x \in Range(seq) THEN seq ELSE Append(seq, x)

---------------------------------------------------------------------------
(* extractPaths                                                            *)

Quote == {"'", "\"", Backtick}
ClsA == Letter \cup Digit \cup {"-", "_", "/", "*"}
ClsB == Letter \cup Digit \cup {"-", "_"}
ClsC == Letter \cup Digit \cup {"-", "_", "/", "*", ":"}

\* The regex after its /: , from index q: the parameter characters, the lazy
\* tail and the closing quote character. The result is the index of the
\* closing quote, or 0.  The tail is lazy, so the first quote that the
\* classes allow to reach ends the match.
RestEnd(s, q) ==
  LET E == {e \in (q + 1)..Len(s) :
              /\ s[e] \in Quote
              /\ s[q] \in ClsB
              /\ \A k \in (q + 1)..(e - 1) : s[k] \in ClsC}
  IN IF q > Len(s) \/ E = {} THEN 0
     ELSE CHOOSE e \in E : \A f \in E : e <= f

\* pathRegex tried at index i (the opening quote): the index of the closing
\* quote, or 0.  [a-zA-Z0-9\-_/*]* is greedy, so the longest prefix after
\* which the rest matches is taken.
MatchEnd(s, i) ==
  LET P == {p \in (i + 2)..(Len(s) - 1) :
              /\ \A k \in (i + 2)..(p - 1) : s[k] \in ClsA
              /\ s[p] = "/"
              /\ s[p + 1] = ":"
              /\ RestEnd(s, p + 2) # 0}
  IN IF i + 1 > Len(s) \/ s[i] \notin Quote \/ s[i + 1] # "/" \/ P = {} THEN 0
     ELSE RestEnd(s, (CHOOSE p \in P : \A r \in P : r <= p) + 2)

\* /\/:[a-zA-Z][a-zA-Z0-9\-_]*/.test(path)
ParamNameTest(path) ==
  \E i \in 1..(Len(path) - 2) :
    path[i] = "/" /\ path[i + 1] = ":" /\ path[i + 2] \in Letter

\* The condition of the if statement on a match.
ValidPath(path) ==
  /\ StartsWith(path, <<"/">>)
  /\ Includes(path, <<"/", ":">>)
  /\ ~Includes(path, <<" ">>)
  /\ ~Includes(path, <<"(">>)
  /\ ~Includes(path, <<")">>)
  /\ ~Includes(path, <<"[">>)
  /\ ~Includes(path, <<"]">>)
  /\ ~Includes(path, <<"\\">>)
  /\ ~Includes(path, <<"?", "!">>)
  /\ ~Includes(path, <<"|">>)
  /\ Len(path) > 2
  /\ Len(path) < 200
  /\ ParamNameTest(path)

\* path.replace(/\/\*$/, '/*')
CleanPath(path) ==
  IF EndsWith(path, <<"/", "*">>)
  THEN SubSeq(path, 1, Len(path) - 2) \o <<"/", "*">>
  ELSE path

\* The while loop over pathRegex.exec(content): lastIndex is the index the
\* next search starts at, acc the Set built so far.
RECURSIVE ExecLoop(_, _, _)
ExecLoop(s, lastIndex, acc) ==
  LET M == {i \in lastIndex..Len(s) : MatchEnd(s, i) # 0}
  IN IF M = {} THEN acc
     ELSE LET i == CHOOSE m \in M : \A n \in M : m <= n
              e == MatchEnd(s, i)
              path == SubSeq(s, i + 1, e - 1)
          IN ExecLoop(s, e + 1,
                      IF ValidPath(path) THEN SetAdd(acc, CleanPath(path))
                      ELSE acc)

extractPaths(s) == ExecLoop(s, 1, <<>>)

---------------------------------------------------------------------------
(* replacePaths                                                            *)

IdCls == Letter \cup Digit \cup {"_"}

Magun4 == <<"m", "a", "g", "u", "n", "4">>

\* Number to its decimal digits, as a template literal writes it.
RECURSIVE Decimal(_)
Decimal(n) ==
  IF n < 10 THEN <<Ascii[17 + n]>>
  ELSE Decimal(n \div 10) \o <<Ascii[17 + (n % 10)]>>

\* paramIndex === 0 ? 'magun4' : 'magun4_' + paramIndex (a template literal)
Placeholder(paramIndex) ==
  IF paramIndex = 0 THEN Magun4 ELSE Magun4 \o <<"_">> \o Decimal(paramIndex)

\* The index of the last character of the longest run of class C that
\* starts at index i (i - 1 when s[i] is not of the class).
RECURSIVE RunEnd(_, _, _)
RunEnd(s, i, C) ==
  IF i <= Len(s) /\ s[i] \in C THEN RunEnd(s, i + 1, C) ELSE i - 1

\* pathStr.replace(/:([a-zA-Z0-9_]+)/g, callback) from index i on, the
\* callback's paramIndex being the number of matches replaced so far.
RECURSIVE ReplaceParams(_, _, _)
ReplaceParams(s, i, paramIndex) ==
  IF i > Len(s) THEN <<>>
  ELSE IF s[i] = ":" /\ RunEnd(s, i + 1, IdCls) > i
       THEN Placeholder(paramIndex)
              \o ReplaceParams(s, RunEnd(s, i + 1, IdCls) + 1, paramIndex + 1)
       ELSE <<s[i]>> \o ReplaceParams(s, i + 1, paramIndex)

\* let paramIndex = 0; const replaced = pathStr.replace(...)
Replaced(p) == ReplaceParams(p, 1, 0)

\* replaced.replace(/\/\*$/, '')
WithoutWildcard(r) ==
  IF EndsWith(r, <<"/", "*">>) THEN SubSeq(r, 1, Len(r) - 2) ELSE r

\* domain.replace(/\/$/, '')
CleanDomain(d) ==
  IF EndsWith(d, <<"/">>) THEN SubSeq(d, 1, Len(d) - 1) ELSE d

\* withoutWildcard.startsWith('/') ? withoutWildcard : '/' + withoutWildcard
CleanUrlPath(w) == IF StartsWith(w, <<"/">>) THEN w ELSE <<"/">> \o w

replacePaths(p, d) == CleanDomain(d) \o CleanUrlPath(WithoutWildcard(Replaced(p)))

---------------------------------------------------------------------------
(* processUrlList: the work done on one line.                              *)

\* A value no string equals: the line added nothing to the Set.
Skipped == <<"SKIPPED">>

White == {" "}

\* String.prototype.trim
RECURSIVE Trim(_)
Trim(s) ==
  IF Len(s) > 0 /\ s[1] \in White THEN Trim(SubSeq(s, 2, Len(s)))
  ELSE IF Len(s) > 0 /\ s[Len(s)] \in White THEN Trim(SubSeq(s, 1, Len(s) - 1))
  ELSE s

LowerChar(c) == IF c \in Upper THEN Ascii[CodeOf[c] - 31 + 32] ELSE c
ToLower(s) == [i \in 1..Len(s) |-> LowerChar(s[i])]

\* /^https?:\/\//i.test(trimmed)
TestHttpScheme(s) ==
  \/ Len(s) >= 7 /\ ToLower(SubSeq(s, 1, 7)) = <<"h", "t", "t", "p", ":",
      "/", "/">>
  \/ Len(s) >= 8 /\ ToLower(SubSeq(s, 1, 8)) = <<"h", "t", "t", "p", "s",
      ":", "/", "/">>

\* The least index i >= from with s[i] in C, or Len(s) + 1.
RECURSIVE FindFirst(_, _, _)
FindFirst(s, from, C) ==
  IF from > Len(s) \/ s[from] \in C THEN from ELSE FindFirst(s, from + 1, C)

\* Code points a host may not hold (credentials and ports are not drawn).
ForbiddenHost ==
  {" ", "#", "/", ":", "<", ">", "?", "@", "[", "\\", "]", "^", "|", "%"}

ParseFailure == [ok |-> FALSE]

\* new URL(s) for s with an http or https scheme, whose path holds letters,
\* digits and / only: the record of the fields the code reads, or
\* ParseFailure where the constructor throws.  The slashes after the scheme
\* are skipped, the host ends at the first / ? or #, an empty path is /,
\* an empty query or fragment gives an empty search or hash.
ParseUrl(s) ==
  LET colon == FindFirst(s, 1, {":"})
      hostStart == RunEnd(s, colon + 1, {"/", "\\"}) + 1
      hostEnd == FindFirst(s, hostStart, {"/", "\\", "?", "#"}) - 1
      host == SubSeq(s, hostStart, hostEnd)
      pathEnd == FindFirst(s, hostEnd + 1, {"?", "#"}) - 1
      path == SubSeq(s, hostEnd + 1, pathEnd)
      hashAt == FindFirst(s, pathEnd + 1, {"#"})
      query == SubSeq(s, pathEnd + 2, hashAt - 1)
      fragment == SubSeq(s, hashAt + 1, Len(s))
  IN IF host = <<>> \/ \E i \in 1..Len(host) : host[i] \in ForbiddenHost
     THEN ParseFailure
     ELSE [ok |-> TRUE,
           origin |-> ToLower(SubSeq(s, 1, colon)) \o <<"/",
               "/">> \o ToLower(host),
           pathname |-> IF path = <<>> THEN <<"/">> ELSE path,
           query |-> query,
           hash |-> IF fragment = <<>> THEN <<>> ELSE <<"#">> \o fragment]

\* String.prototype.split on one separator character
RECURSIVE Split(_, _)
Split(s, sep) ==
  LET at == FindFirst(s, 1, {sep})
  IN IF at > Len(s) THEN <<s>>
     ELSE <<SubSeq(s, 1, at - 1)>> \o Split(SubSeq(s, at + 1, Len(s)), sep)

\* Array.prototype.join
RECURSIVE Join(_, _)
Join(seq, sep) ==
  IF Len(seq) = 0 THEN <<>>
  ELSE IF Len(seq) = 1 THEN seq[1]
  ELSE seq[1] \o sep \o Join(Tail(seq), sep)

\* The form-urlencoded decoding of a name or value without percent signs.
FormDecode(s) == [i \in 1..Len(s) |-> IF s[i] = "+" THEN " " ELSE s[i]]

HexDigits == <<"0", "1", "2", "3", "4", "5", "6", "7", "8", "9", "A", "B",
    "C", "D", "E", "F">>

\* The form-urlencoded serialisation of a name or value.
RECURSIVE FormEncode(_)
FormEncode(s) ==
  IF s = <<>> THEN <<>>
  ELSE (IF s[1] \in Letter \cup Digit \cup {"*", "-", ".", "_"} THEN <<s[1]>>
        ELSE IF s[1] = " " THEN <<"+">>
        ELSE <<"%", HexDigits[(CodeOf[s[1]] \div 16) + 1],
                    HexDigits[(CodeOf[s[1]] % 16) + 1]>>)
       \o FormEncode(Tail(s))

\* One piece name=value of a query string as an entry.
Entry(piece) ==
  LET eq == FindFirst(piece, 1, {"="})
  IN [key |-> FormDecode(SubSeq(piece, 1, eq - 1)),
      value |-> FormDecode(SubSeq(piece, eq + 1, Len(piece)))]

\* Array.from(urlObj.searchParams.entries()): the non-empty pieces between
\* the & of the query, each split at its first =.
RECURSIVE EntriesOf(_)
EntriesOf(pieces) ==
  IF pieces = <<>> THEN <<>>
  ELSE (IF pieces[1] = <<>> THEN <<>> ELSE <<Entry(pieces[1])>>)
       \o EntriesOf(Tail(pieces))

SearchParamsEntries(query) == EntriesOf(Split(query, "&"))

\* Names every object inherits from Object.prototype (those drawn here).
ObjectPrototypeKeys ==
  {<<"c", "o", "n", "s", "t", "r", "u", "c", "t", "o", "r">>, <<"t", "o",
      "S", "t", "r", "i", "n", "g">>, <<"v", "a", "l", "u", "e", "O",
      "f">>, <<"h", "a", "s", "O", "w", "n", "P", "r", "o", "p", "e", "r",
      "t", "y">>,
   <<"_", "_", "p", "r", "o", "t", "o", "_", "_">>}

\* What a string that is not a numeral compares as: i < keyCounts[k] is
\* false for it.
NotANumber == -1

\* keyCounts[key] = (keyCounts[key] || 0) + 1 on the object literal {}, as
\* the sequence of its own properties in creation order.  An inherited name
\* reads as the inherited function or object, which is truthy, so the sum is
\* a string; assigning a string to __proto__ creates no property.
CountKey(obj, key) ==
  LET own == {i \in 1..Len(obj) : obj[i].key = key}
      at == CHOOSE i \in own : TRUE
  IN IF own # {}
     THEN [obj EXCEPT ![at].count =
             IF obj[at].count = NotANumber THEN NotANumber
             ELSE obj[at].count + 1]
     ELSE IF key = <<"_", "_", "p", "r", "o", "t", "o", "_", "_">> THEN obj
     ELSE IF key \in ObjectPrototypeKeys
          THEN Append(obj, [key |-> key, count |-> NotANumber])
     ELSE Append(obj, [key |-> key, count |-> 1])

\* for (const [key] of entries) keyCounts[key] = ...
RECURSIVE KeyCounts(_, _)
KeyCounts(entries, obj) ==
  IF entries = <<>> THEN obj
  ELSE KeyCounts(Tail(entries), CountKey(obj, entries[1].key))

\* a < b as Array.prototype.sort orders strings: by code units, a proper
\* prefix first.
RECURSIVE StrLess(_, _)
StrLess(a, b) ==
  IF b = <<>> THEN FALSE
  ELSE IF a = <<>> THEN TRUE
  ELSE IF a[1] # b[1] THEN CodeOf[a[1]] < CodeOf[b[1]]
  ELSE StrLess(Tail(a), Tail(b))

\* Array.prototype.sort() on distinct strings
RECURSIVE SortStrings(_)
SortStrings(seq) ==
  IF seq = <<>> THEN <<>>
  ELSE LET m == CHOOSE i \in 1..Len(seq) :
                  \A j \in 1..Len(seq) : ~StrLess(seq[j], seq[i])
       IN <<seq[m]>>
            \o SortStrings([j \in 1..(Len(seq) - 1) |->
                              IF j < m THEN seq[j] ELSE seq[j + 1]])

\* Object.keys(keyCounts).sort() (no key drawn is an array index, so the
\* keys come in creation order before the sort)
SortedKeys(obj) == SortStrings([i \in 1..Len(obj) |-> obj[i].key])

\* for (let i = 0; i < keyCounts[k]; i++) keysWithDupes.push(k)
RECURSIVE Repeat(_, _)
Repeat(k, n) == IF n <= 0 THEN <<>> ELSE <<k>> \o Repeat(k, n - 1)

CountOf(obj, k) == obj[CHOOSE i \in 1..Len(obj) : obj[i].key = k].count

RECURSIVE KeysWithDupes(_, _)
KeysWithDupes(sortedKeys, obj) ==
  IF sortedKeys = <<>> THEN <<>>
  ELSE Repeat(sortedKeys[1], CountOf(obj, sortedKeys[1]))
         \o KeysWithDupes(Tail(sortedKeys), obj)

\* The loop appending to canonParams, idx starting at 0 for this URL.
CanonParams(keysWithDupes) ==
  [idx \in 1..Len(keysWithDupes) |->
     [key |-> keysWithDupes[idx], value |-> Placeholder(idx - 1)]]

\* URLSearchParams.prototype.toString
ParamsToString(params) ==
  Join([i \in 1..Len(params) |->
          FormEncode(params[i].key) \o <<"=">> \o FormEncode(params[i].value)],
       <<"&">>)

\* The body of the try block: the URL added to output, or Skipped.
CanonicalUrl(trimmed) ==
  LET urlObj == ParseUrl(trimmed)
      entries == SearchParamsEntries(urlObj.query)
      keyCounts == KeyCounts(entries, <<>>)
      canonSearch ==
        ParamsToString(CanonParams(KeysWithDupes(SortedKeys(keyCounts),
                                                 keyCounts)))
  IN IF ~urlObj.ok THEN Skipped
     ELSE IF Len(entries) = 0 THEN Skipped
     ELSE urlObj.origin \o urlObj.pathname
            \o (IF canonSearch # <<>> THEN <<"?">> \o canonSearch ELSE <<>>)
            \o urlObj.hash

\* Variant of ProcessLine without the test of the scheme.
ProcessLineAnyScheme(line) ==
  LET trimmed == Trim(line)
  IN IF trimmed = <<>> THEN Skipped
     ELSE IF ~Includes(trimmed, <<"?">>) THEN Skipped
     ELSE CanonicalUrl(trimmed)

\* One iteration of the loop over the lines.
ProcessLine(line) ==
  LET trimmed == Trim(line)
  IN IF trimmed = <<>> THEN Skipped
     ELSE IF ~TestHttpScheme(trimmed) THEN Skipped
     ELSE IF ~Includes(trimmed, <<"?">>) THEN Skipped
     ELSE CanonicalUrl(trimmed)

---------------------------------------------------------------------------
(* parseArgs                                                               *)

\* null: a value no string equals.
Null == <<"NULL">>

FlagJs == <<"-", "j", "s">>
FlagD == <<"-", "d">>
FlagUrls == <<"-", "u", "r", "l", "s">>

\* args[i + 1] as a condition: the argument exists and is not ''.
Truthy(args, j) == j <= Len(args) /\ args[j] # <<>>

\* The for loop of parseArgs from index i on.
RECURSIVE ParseLoop(_, _, _)
ParseLoop(args, i, cfg) ==
  IF i > Len(args) THEN cfg
  ELSE IF args[i] = FlagJs /\ Truthy(args, i + 1)
       THEN ParseLoop(args, i + 2, [cfg EXCEPT !.jsDir = args[i + 1]])
  ELSE IF args[i] = FlagD /\ Truthy(args, i + 1)
       THEN ParseLoop(args, i + 2, [cfg EXCEPT !.domain = args[i + 1]])
  ELSE IF args[i] = FlagUrls /\ Truthy(args, i + 1)
       THEN ParseLoop(args, i + 2, [cfg EXCEPT !.urlsFile = args[i + 1]])
  ELSE ParseLoop(args, i + 1, cfg)

\* Variant of parseArgs whose loop lacks the i++ after a flag, so the value is
\* scanned again as an argument.
RECURSIVE ParseLoopNoSkip(_, _, _)
ParseLoopNoSkip(args, i, cfg) ==
  IF i > Len(args) THEN cfg
  ELSE IF args[i] = FlagJs /\ Truthy(args, i + 1)
       THEN ParseLoopNoSkip(args, i + 1, [cfg EXCEPT !.jsDir = args[i + 1]])
  ELSE IF args[i] = FlagD /\ Truthy(args, i + 1)
       THEN ParseLoopNoSkip(args, i + 1, [cfg EXCEPT !.domain = args[i + 1]])
  ELSE IF args[i] = FlagUrls /\ Truthy(args, i + 1)
       THEN ParseLoopNoSkip(args, i + 1, [cfg EXCEPT !.urlsFile = args[i + 1]])
  ELSE ParseLoopNoSkip(args, i + 1, cfg)

parseArgsNoSkip(args) ==
  ParseLoopNoSkip(args, 1, [jsDir |-> Null, domain |-> Null, urlsFile |-> Null])

parseArgs(args) ==
  ParseLoop(args, 1, [jsDir |-> Null, domain |-> Null, urlsFile |-> Null])

---------------------------------------------------------------------------
(* main, processUrlList and getAllJsFiles, step by step.                   *)

\* A file that does not exist.
Absent == <<"ABSENT">>

\* The content of a file that cannot be read.
Unreadable == <<"EACCES">>

LF == <<"\n">>

\* A run ends: by return from main, process.exit(1) or an uncaught throw.
End(how) == exit' = how /\ pc' = "done"

\* const config = parseArgs()
ParseArgs ==
  /\ pc = "parseArgs"
  /\ config' = parseArgs(argv)
  /\ pc' = "main"
  /\ UNCHANGED <<pureVars, fsVars, exit, printed, listVars, scanVars>>

\* if (config.urlsFile): the call of processUrlList
MainList ==
  /\ pc = "main"
  /\ config.urlsFile # Null
  /\ printed' = printed \cup {"processing"}
  /\ pc' = "urlExists"
  /\ UNCHANGED <<pureVars, fsVars, config, exit, listVars, scanVars>>

\* if (!config.jsDir || !config.domain): showUsage and process.exit(1)
MainUsage ==
  /\ pc = "main"
  /\ config.urlsFile = Null
  /\ config.jsDir = Null \/ config.domain = Null
  /\ printed' = printed \cup {"usage"}
  /\ End("exit1")
  /\ UNCHANGED <<pureVars, fsVars, config, listVars, scanVars>>

\* Otherwise main goes on to getAllJsFiles(config.jsDir).
MainScan ==
  /\ pc = "main"
  /\ config.urlsFile = Null
  /\ config.jsDir # Null /\ config.domain # Null
  /\ printed' = printed \cup {"scanning"}
  /\ pc' = "collect"
  /\ UNCHANGED <<pureVars, fsVars, config, exit, listVars, scanVars>>

\* processUrlList: the file does not exist.
UrlListMissing ==
  /\ pc = "urlExists"
  /\ urlsFile.kind = "missing"
  /\ printed' = printed \cup {"errUrlsFile"}
  /\ End("exit1")
  /\ UNCHANGED <<pureVars, fsVars, config, listVars, scanVars>>

\* processUrlList: readFileSync throws (the name is a directory's).
UrlListReadThrows ==
  /\ pc = "urlExists"
  /\ urlsFile.kind = "dir"
  /\ End("uncaught")
  /\ UNCHANGED <<pureVars, fsVars, config, printed, listVars, scanVars>>

\* processUrlList: the text is read and split into lines.
UrlListRead ==
  /\ pc = "urlExists"
  /\ urlsFile.kind = "file"
  /\ pc' = "urlLoop"
  /\ UNCHANGED <<pureVars, fsVars, config, exit, printed, listVars, scanVars>>

\* processUrlList: one iteration of the loop over the lines.
UrlLine ==
  /\ pc = "urlLoop"
  /\ lineIndex < Len(urlsFile.lines)
  /\ LET r == ProcessLine(urlsFile.lines[lineIndex + 1])
     IN /\ results' = Append(results, r)
        /\ output' = IF r = Skipped THEN output ELSE SetAdd(output, r)
  /\ lineIndex' = lineIndex + 1
  /\ UNCHANGED <<pureVars, fsVars, config, pc, exit, printed, waymoreTxt,
                 scanVars>>

\* processUrlList: no URL was added; back in main, the run returns.
UrlListNone ==
  /\ pc = "urlLoop"
  /\ lineIndex = Len(urlsFile.lines)
  /\ Len(output) = 0
  /\ printed' = printed \cup {"noUrls", "done"}
  /\ End("returned")
  /\ UNCHANGED <<pureVars, fsVars, config, listVars, scanVars>>

\* processUrlList: the Set is written; back in main, the run returns.
UrlListWrite ==
  /\ pc = "urlLoop"
  /\ lineIndex = Len(urlsFile.lines)
  /\ Len(output) # 0
  /\ cwdWritable
  /\ waymoreTxt' = Join(output, LF)
  /\ printed' = printed \cup {"createdWaymore", "done"}
  /\ End("returned")
  /\ UNCHANGED <<pureVars, fsVars, config, lineIndex, results, output,
                 scanVars>>

\* processUrlList: writeFileSync throws.
UrlListWriteThrows ==
  /\ pc = "urlLoop"
  /\ lineIndex = Len(urlsFile.lines)
  /\ Len(output) # 0
  /\ ~cwdWritable
  /\ End("uncaught")
  /\ UNCHANGED <<pureVars, fsVars, config, printed, listVars, scanVars>>

\* A directory being listed: its entries and those the loop has yet to see.
\* readdirSync returns them in an order of its own, so the loop takes any.
Frame(ents) == [ents |-> ents, left |-> 1..Len(ents)]

\* getAllJsFiles(config.jsDir): the directory does not exist.
CollectMissing ==
  /\ pc = "collect"
  /\ jsTree.kind = "missing"
  /\ printed' = printed \cup {"errDir", "found"}
  /\ pc' = "readLoop"
  /\ UNCHANGED <<pureVars, fsVars, config, exit, listVars, scanVars>>

\* getAllJsFiles(config.jsDir): readdirSync throws (the name is a file's).
CollectThrows ==
  /\ pc = "collect"
  /\ jsTree.kind = "notdir"
  /\ End("uncaught")
  /\ UNCHANGED <<pureVars, fsVars, config, printed, listVars, scanVars>>

\* getAllJsFiles(config.jsDir): the directory is listed.
CollectEnter ==
  /\ pc = "collect"
  /\ jsTree.kind = "dir"
  /\ stack' = <<Frame(jsTree.ents)>>
  /\ pc' = "walk"
  /\ UNCHANGED <<pureVars, fsVars, config, exit, printed, listVars, jsFiles,
                 fileIndex, allPaths, pathsTxt, csptTxt>>

\* The frame on top with item i taken from those left.
Taken(i) ==
  [stack EXCEPT ![Len(stack)].left = stack[Len(stack)].left \ {i}]

\* The loop over items: statSync throws (a dangling link).
WalkStatThrows ==
  /\ pc = "walk"
  /\ \E i \in stack[Len(stack)].left :
       stack[Len(stack)].ents[i].kind = "broken"
  /\ End("uncaught")
  /\ UNCHANGED <<pureVars, fsVars, config, printed, listVars, scanVars>>

\* The loop over items: a directory, listed by the recursive call.
WalkSubdir ==
  /\ pc = "walk"
  /\ \E i \in stack[Len(stack)].left :
       /\ stack[Len(stack)].ents[i].kind = "dir"
       /\ stack' = Append(Taken(i), Frame(stack[Len(stack)].ents[i].ents))
  /\ UNCHANGED <<pureVars, fsVars, config, pc, exit, printed, listVars,
                 jsFiles, fileIndex, allPaths, pathsTxt, csptTxt>>

\* The loop over items: a directory whose readdirSync throws.
WalkSubdirThrows ==
  /\ pc = "walk"
  /\ \E i \in stack[Len(stack)].left :
       stack[Len(stack)].ents[i].kind = "nolist"
  /\ End("uncaught")
  /\ UNCHANGED <<pureVars, fsVars, config, printed, listVars, scanVars>>

\* The loop over items: a file whose name ends with .js.
WalkJsFile ==
  /\ pc = "walk"
  /\ \E i \in stack[Len(stack)].left :
       /\ stack[Len(stack)].ents[i].kind = "js"
       /\ stack' = Taken(i)
       /\ jsFiles' = Append(jsFiles, stack[Len(stack)].ents[i].content)
  /\ UNCHANGED <<pureVars, fsVars, config, pc, exit, printed, listVars,
                 fileIndex, allPaths, pathsTxt, csptTxt>>

\* The loop over items: any other file.
WalkOtherFile ==
  /\ pc = "walk"
  /\ \E i \in stack[Len(stack)].left :
       /\ stack[Len(stack)].ents[i].kind = "other"
       /\ stack' = Taken(i)
  /\ UNCHANGED <<pureVars, fsVars, config, pc, exit, printed, listVars,
                 jsFiles, fileIndex, allPaths, pathsTxt, csptTxt>>

\* return files: to the caller's loop, or to main.
WalkReturn ==
  /\ pc = "walk"
  /\ stack[Len(stack)].left = {}
  /\ stack' = SubSeq(stack, 1, Len(stack) - 1)
  /\ pc' = IF Len(stack) = 1 THEN "readLoop" ELSE "walk"
  /\ printed' = IF Len(stack) = 1 THEN printed \cup {"found"} ELSE printed
  /\ UNCHANGED <<pureVars, fsVars, config, exit, listVars, jsFiles,
                 fileIndex, allPaths, pathsTxt, csptTxt>>

\* paths.forEach(p => allPaths.add(p))
RECURSIVE AddAll(_, _)
AddAll(set, paths) ==
  IF paths = <<>> THEN set ELSE AddAll(SetAdd(set, paths[1]), Tail(paths))

\* The loop over jsFiles: the file is read and its paths are added.
ReadFile ==
  /\ pc = "readLoop"
  /\ fileIndex < Len(jsFiles)
  /\ jsFiles[fileIndex + 1] # Unreadable
  /\ LET paths == extractPaths(jsFiles[fileIndex + 1])
     IN /\ allPaths' = AddAll(allPaths, paths)
        /\ printed' = IF Len(paths) > 0 THEN printed \cup {"foundPaths"}
                      ELSE printed
  /\ fileIndex' = fileIndex + 1
  /\ UNCHANGED <<pureVars, fsVars, config, pc, exit, listVars, stack,
                 jsFiles, pathsTxt, csptTxt>>

\* The loop over jsFiles: readFileSync throws and the catch reports it.
ReadFileThrows ==
  /\ pc = "readLoop"
  /\ fileIndex < Len(jsFiles)
  /\ jsFiles[fileIndex + 1] = Unreadable
  /\ printed' = printed \cup {"errRead"}
  /\ fileIndex' = fileIndex + 1
  /\ UNCHANGED <<pureVars, fsVars, config, pc, exit, listVars, stack,
                 jsFiles, allPaths, pathsTxt, csptTxt>>

\* if (allPaths.size === 0): the message and return
NoPaths ==
  /\ pc = "readLoop"
  /\ fileIndex = Len(jsFiles)
  /\ Len(allPaths) = 0
  /\ printed' = printed \cup {"noPaths"}
  /\ End("returned")
  /\ UNCHANGED <<pureVars, fsVars, config, listVars, scanVars>>

\* Variant of PathsArray without the sort().
PathsArrayUnsorted(set) == set

\* Array.from(allPaths).sort()
PathsArray(set) == SortStrings(set)

\* [...new Set(array)]
RECURSIVE Dedupe(_, _)
Dedupe(array, set) ==
  IF array = <<>> THEN set ELSE Dedupe(Tail(array), SetAdd(set, array[1]))

\* Variant of CsptUrls without the Set around the mapped array.
CsptUrlsNoSet(pathsArray, dom) ==
  [i \in 1..Len(pathsArray) |-> replacePaths(pathsArray[i], dom)]

\* [...new Set(pathsArray.map(p => replacePaths(p, config.domain)))]
CsptUrls(pathsArray, dom) ==
  Dedupe([i \in 1..Len(pathsArray) |-> replacePaths(pathsArray[i], dom)], <<>>)

\* fs.writeFileSync('paths.txt', pathsArray.join('\n'))
WritePathsTxt ==
  /\ pc = "readLoop"
  /\ fileIndex = Len(jsFiles)
  /\ Len(allPaths) # 0
  /\ cwdWritable
  /\ pathsTxt' = Join(PathsArray(allPaths), LF)
  /\ printed' = printed \cup {"createdPaths"}
  /\ pc' = "writeCspt"
  /\ UNCHANGED <<pureVars, fsVars, config, exit, listVars, stack, jsFiles,
                 fileIndex, allPaths, csptTxt>>

\* fs.writeFileSync('paths.txt', ...) throws.
WritePathsThrows ==
  /\ pc = "readLoop"
  /\ fileIndex = Len(jsFiles)
  /\ Len(allPaths) # 0
  /\ ~cwdWritable
  /\ End("uncaught")
  /\ UNCHANGED <<pureVars, fsVars, config, printed, listVars, scanVars>>

\* fs.writeFileSync('CSPT_magun4.txt', csptUrls.join('\n')), and the end
WriteCsptTxt ==
  /\ pc = "writeCspt"
  /\ csptTxt' = Join(CsptUrls(PathsArray(allPaths), config.domain), LF)
  /\ printed' = printed \cup {"createdCspt", "done"}
  /\ End("returned")
  /\ UNCHANGED <<pureVars, fsVars, config, listVars, stack, jsFiles,
                 fileIndex, allPaths, pathsTxt>>

---------------------------------------------------------------------------
(* The specifications.  Each starts from the inputs it draws; the          *)
(* variables of the parts it does not run stay as they start.              *)

ExtractIdle == content = <<>> /\ returned = <<>> /\ epc = "idle"

ReplaceIdle ==
  pathStr = <<>> /\ domain = <<>> /\ replaced = <<>> /\ url = <<>> /\ rpc = "idle"

NoUrlsFile == [kind |-> "missing", lines |-> <<>>]
NoTree == [kind |-> "missing", ents |-> <<>>]

\* A run of main about to start on command line a, with the files u and t
\* and the working directory writable or not (w).
MainStart(a, u, t, w, at) ==
  /\ argv = a
  /\ urlsFile = u
  /\ jsTree = t
  /\ cwdWritable = w
  /\ config = [jsDir |-> Null, domain |-> Null, urlsFile |-> Null]
  /\ pc = at
  /\ exit = "running"
  /\ printed = {}
  /\ lineIndex = 0
  /\ results = <<>>
  /\ output = <<>>
  /\ waymoreTxt = Absent
  /\ stack = <<>>
  /\ jsFiles = <<>>
  /\ fileIndex = 0
  /\ allPaths = <<>>
  /\ pathsTxt = Absent
  /\ csptTxt = Absent

MainIdle == MainStart(<<>>, NoUrlsFile, NoTree, TRUE, "idle")

---------------------------------------------------------------------------
(* SpecExtract: extractPaths alone, on every short content and on the      *)
(* documented ones.                                                        *)

ContentAlphabet == {"'", "\"", "/", ":", "a", "1", "("}

Q1 == <<"'">>

\* app.get('/download/:id', handler);
ReadmeGet == <<"a", "p", "p", ".", "g", "e", "t", "(", "'", "/", "d", "o",
    "w", "n", "l", "o", "a", "d", "/", ":", "i", "d", "'", ",", " ", "h",
    "a", "n", "d", "l", "e", "r", ")", ";">>

\* app.post('/user/:userId/post/:postId', handler);
ReadmePost == <<"a", "p", "p", ".", "p", "o", "s", "t", "(", "'", "/", "u",
    "s", "e", "r", "/", ":", "u", "s", "e", "r", "I", "d", "/", "p", "o",
    "s", "t", "/", ":", "p", "o", "s", "t", "I", "d", "'", ",", " ", "h",
    "a", "n", "d", "l", "e", "r", ")", ";">>

\* '/api/search?q=(test)'
SearchLiteral == <<"'", "/", "a", "p", "i", "/", "s", "e", "a", "r", "c",
    "h", "?", "q", "=", "(", "t", "e", "s", "t", ")", "'">>

DocumentedContents == {ReadmeGet, ReadmePost, SearchLiteral}

InitExtract ==
  /\ content \in SeqsUpTo(ContentAlphabet, MaxContentLen) \cup DocumentedContents
  /\ returned = <<>>
  /\ epc = "start"
  /\ ReplaceIdle
  /\ MainIdle

CallExtractPaths ==
  /\ epc = "start"
  /\ returned' = extractPaths(content)
  /\ epc' = "done"
  /\ UNCHANGED <<content, replaceVars, mainVars>>

NextExtract == CallExtractPaths

SpecExtract == InitExtract /\ [][NextExtract]_vars

---------------------------------------------------------------------------
(* SpecReplace: replacePaths alone, on every short template the extractor  *)
(* returns and on the documented ones, with every short domain.            *)

TemplateAlphabet == {"/", ":", "a", "1", "-", "*"}

\* A template is what extractPaths returns for a literal.
IsTemplate(t) == extractPaths(Q1 \o t \o Q1) = <<t>>

\* /download/:id
DownloadTemplate == <<"/", "d", "o", "w", "n", "l", "o", "a", "d", "/",
    ":", "i", "d">>

\* /user/:userId/post/:postId
UserPostTemplate == <<"/", "u", "s", "e", "r", "/", ":", "u", "s", "e",
    "r", "I", "d", "/", "p", "o", "s", "t", "/", ":", "p", "o", "s", "t",
    "I", "d">>

\* /f/:id/*/*
DoubleWildcardTemplate == <<"/", "f", "/", ":", "i", "d", "/", "*", "/", "*">>

Templates ==
  {t \in {<<"/">> \o b : b \in SeqsUpTo(TemplateAlphabet, MaxTemplateLen - 1)}
         \cup {DownloadTemplate, UserPostTemplate, DoubleWildcardTemplate} :
     IsTemplate(t)}

\* A domain is a non-empty command line argument.
Domains == {<<"x">> \o d : d \in SeqsUpTo({"x", "/"}, MaxDomainLen - 1)}

InitReplace ==
  /\ pathStr \in Templates
  /\ domain \in Domains
  /\ replaced = <<>>
  /\ url = <<>>
  /\ rpc = "start"
  /\ ExtractIdle
  /\ MainIdle

CallReplacePaths ==
  /\ rpc = "start"
  /\ replaced' = Replaced(pathStr)
  /\ url' = replacePaths(pathStr, domain)
  /\ rpc' = "done"
  /\ UNCHANGED <<pathStr, domain, extractVars, mainVars>>

NextReplace == CallReplacePaths

SpecReplace == InitReplace /\ [][NextReplace]_vars

---------------------------------------------------------------------------
(* SpecList: a run of main in URL-list mode, on every file of one line     *)
(* http://x/p?<query> with or without a fragment, and on every file of     *)
(* chosen lines.                                                           *)

QueryAlphabet == {"a", "b", "=", "&", "+"}

WideLines ==
  {<<"h", "t", "t", "p", ":", "/", "/", "x", "/", "p", "?">> \o q \o f :
     q \in SeqsUpTo(QueryAlphabet, MaxQueryLen), f \in {<<>>, <<"#", "f">>}}

ChosenLines ==
  {<<>>,
   <<" ", " ">>,
   <<"n", "o", "t", "-", "a", "-", "u", "r", "l">>,
   <<"h", "t", "t", "p", "s", ":", "/", "/", "x", ".", "c", "o", "m", "/",
       "p", "a", "t", "h">>,
   <<"h", "t", "t", "p", "s", ":", "/", "/", "x", ".", "c", "o", "m", "/",
       "a", "?", "b", "=", "1", "&", "c", "=", "2">>,
   <<" ", "h", "t", "t", "p", ":", "/", "/", "x", "/", "p", "?", "b", "=",
       "1", "&", "a", "=", "2", "&", "b", "=", "3", " ">>,
   <<"h", "t", "t", "p", ":", "/", "/", "x", "/", "p", "?", "a", "=", "9",
       "&", "b", "=", "8", "&", "b", "=", "7">>,
   <<"f", "t", "p", ":", "/", "/", "x", "/", "p", "?", "a", "=", "1">>,
   <<"H", "T", "T", "P", ":", "/", "/", "X", "/", "p", "?", "a", "=", "1">>,
   <<"h", "t", "t", "p", ":", "/", "/", "x", "?", "a", "=", "1">>,
   <<"h", "t", "t", "p", ":", "/", "/", "?", "a", "=", "1">>,
   <<"h", "t", "t", "p", ":", "/", "/", "x", " ", "y", "/", "p", "?", "a",
       "=", "1">>,
   <<"h", "t", "t", "p", ":", "/", "/", "x", "/", "p", "#", "f", "?", "a",
       "=", "1">>,
   <<"h", "t", "t", "p", ":", "/", "/", "x", "/", "p", "?", "c", "o", "n",
       "s", "t", "r", "u", "c", "t", "o", "r", "=", "1">>,
   <<"h", "t", "t", "p", ":", "/", "/", "x", "/", "p", "?", "b", "=", "1",
       "&", "t", "o", "S", "t", "r", "i", "n", "g", "=", "2", "&", "a",
       "=", "3", "&", "_", "_", "p", "r", "o", "t", "o", "_", "_", "=", "4">>}

ListFiles ==
  {<<l>> : l \in WideLines} \cup UNION {[1..n -> ChosenLines] : n \in 1..MaxLines}

InitList ==
  /\ ExtractIdle
  /\ ReplaceIdle
  /\ \E lines \in ListFiles, w \in BOOLEAN :
       MainStart(<<FlagUrls, <<"u", ".", "t", "x",
           "t">>>>, [kind |-> "file", lines |-> lines],
                 NoTree, w, "parseArgs")

NextList ==
  \/ ParseArgs
  \/ MainList
  \/ UrlListRead
  \/ UrlLine
  \/ UrlListNone
  \/ UrlListWrite
  \/ UrlListWriteThrows

SpecList == InitList /\ [][NextList]_vars

---------------------------------------------------------------------------
(* SpecScan: a run of main in extraction mode, on every directory of a few *)
(* entries, read in every order.                                           *)

FileContents ==
  {<<"g", "e", "t", "(", "'", "/", "a", "/", ":", "b", "'", ")">>,
   <<"\"", "/", "a", "/", ":", "c", "/", "*", "\"", " ", "'", "/", "a",
       "/", ":", "b", "'">>,
   <<"'", "/", "b", "/", ":", "c", "/", ":", "d", "'", " ", "'", "/", "a",
       "/", ":", "b", "/", "*", "'">>,
   <<"x", " ", "=", " ", "'", "/", "a", "/", "b", "'">>}

JsFile(c) == [kind |-> "js", content |-> c, ents |-> <<>>]
OtherFile == [kind |-> "other", content |-> <<"'", "/", "o", "/", ":", "p",
    "'">>, ents |-> <<>>]
BrokenLink == [kind |-> "broken", content |-> <<>>, ents |-> <<>>]
Dir(ents) == [kind |-> "dir", content |-> <<>>, ents |-> ents]
UnlistableDir == [kind |-> "nolist", content |-> <<>>, ents |-> <<>>]

LeafEntries ==
  {JsFile(c) : c \in FileContents \cup {Unreadable}} \cup {OtherFile, BrokenLink}

SubDirs ==
  {Dir(<<>>),
   Dir(<<JsFile(<<"'", "/", "b", "/", ":", "c", "/", ":", "d", "'", " ",
       "'", "/", "a", "/", ":", "b", "/", "*", "'">>), JsFile(<<"g", "e",
       "t", "(", "'", "/", "a", "/", ":", "b", "'", ")">>)>>),
   Dir(<<OtherFile, JsFile(<<"\"", "/", "a", "/", ":", "c", "/", "*", "\"",
       " ", "'", "/", "a", "/", ":", "b", "'">>)>>),
   UnlistableDir}

\* The documented example: one file with the two routes of the README.
ReadmeTree ==
  [kind |-> "dir", ents |-> <<JsFile(ReadmeGet \o LF \o ReadmePost)>>]

Trees ==
  {[kind |-> "dir", ents |-> e] :
     e \in SeqsUpTo(LeafEntries \cup SubDirs, MaxEntries)}
  \cup {ReadmeTree, NoTree, [kind |-> "notdir", ents |-> <<>>]}

ScanDomains == {<<"h", "t", "t", "p", "s", ":", "/", "/", "x">>, <<"h",
    "t", "t", "p", "s", ":", "/", "/", "x", "/">>}

InitScan ==
  /\ ExtractIdle
  /\ ReplaceIdle
  /\ \E t \in Trees, d \in ScanDomains, w \in BOOLEAN :
       MainStart(<<FlagJs, <<"j",
           "s">>, FlagD, d>>, NoUrlsFile, t, w, "parseArgs")

NextScan ==
  \/ ParseArgs
  \/ MainScan
  \/ CollectMissing
  \/ CollectThrows
  \/ CollectEnter
  \/ WalkStatThrows
  \/ WalkSubdir
  \/ WalkSubdirThrows
  \/ WalkJsFile
  \/ WalkOtherFile
  \/ WalkReturn
  \/ ReadFile
  \/ ReadFileThrows
  \/ NoPaths
  \/ WritePathsTxt
  \/ WritePathsThrows
  \/ WriteCsptTxt

SpecScan == InitScan /\ [][NextScan]_vars

---------------------------------------------------------------------------
(* Spec: any run of main, on every short command line and a few files.     *)

ArgTokens == {FlagJs, FlagD, FlagUrls, <<"x">>}

\* Command lines with an empty argument, which a shell passes for ''.
ArgvsWithEmpty ==
  {<<FlagUrls, <<>>>>,
   <<FlagJs, <<"x">>, FlagD, <<>>>>,
   <<FlagJs, <<>>, FlagD, <<"x">>>>,
   <<FlagUrls, <<>>, FlagJs, <<"x">>, FlagD, <<"x">>>>,
   <<<<>>, FlagUrls, <<"x">>>>}

Argvs == SeqsUpTo(ArgTokens, MaxArgs) \cup ArgvsWithEmpty

SomeUrlsFiles ==
  {NoUrlsFile,
   [kind |-> "dir", lines |-> <<>>],
   [kind |-> "file", lines |-> <<<<"n", "o", "t", "-", "a", "-", "u", "r",
       "l">>, <<"h", "t", "t", "p", "s", ":", "/", "/", "x", ".", "c", "o",
       "m", "/", "p", "a", "t", "h">>>>],
   [kind |-> "file", lines |-> <<<<"h", "t", "t", "p", "s", ":", "/", "/",
       "x", ".", "c", "o", "m", "/", "a", "?", "b", "=", "1", "&", "c",
       "=", "2">>>>]}

SomeTrees ==
  {NoTree,
   [kind |-> "notdir", ents |-> <<>>],
   [kind |-> "dir", ents |-> <<JsFile(<<"g", "e", "t", "(", "'", "/", "a",
       "/", ":", "b", "'", ")">>), BrokenLink>>],
   [kind |-> "dir", ents |-> <<JsFile(Unreadable), OtherFile,
                              Dir(<<JsFile(<<"g", "e", "t", "(", "'", "/",
                                  "a", "/", ":", "b", "'", ")">>)>>)>>],
   [kind |-> "dir", ents |-> <<UnlistableDir>>]}

Init ==
  /\ ExtractIdle
  /\ ReplaceIdle
  /\ \E a \in Argvs, u \in SomeUrlsFiles, t \in SomeTrees, w \in BOOLEAN :
       MainStart(a, u, t, w, "parseArgs")

Next ==
  \/ ParseArgs
  \/ MainList
  \/ MainUsage
  \/ MainScan
  \/ UrlListMissing
  \/ UrlListReadThrows
  \/ UrlListRead
  \/ UrlLine
  \/ UrlListNone
  \/ UrlListWrite
  \/ UrlListWriteThrows
  \/ CollectMissing
  \/ CollectThrows
  \/ CollectEnter
  \/ WalkStatThrows
  \/ WalkSubdir
  \/ WalkSubdirThrows
  \/ WalkJsFile
  \/ WalkOtherFile
  \/ WalkReturn
  \/ ReadFile
  \/ ReadFileThrows
  \/ NoPaths
  \/ WritePathsTxt
  \/ WritePathsThrows
  \/ WriteCsptTxt

Spec == Init /\ [][Next]_vars

---------------------------------------------------------------------------
(* Properties of extractPaths (under SpecExtract).                         *)

\* s holds p between two occurrences of the same quote character.
EnclosedInMatchingQuotes(s, p) ==
  \E i \in 1..(Len(s) - Len(p) - 1) :
    /\ s[i] \in Quote
    /\ SubSeq(s, i + 1, i + Len(p)) = p
    /\ s[i + Len(p) + 1] = s[i]

\* The six rules of the Path Extractor, as the specification words them.
Rule1(p) == Len(p) >= 1 /\ p[1] = "/"
Rule2(p) == \E i \in 1..(Len(p) - 1) : p[i] = "/" /\ p[i + 1] = ":"
Rule3(p) ==
  \A i \in 1..Len(p) : p[i] \in Letter \cup Digit \cup {"-", "_", "/", "*", ":"}
Rule4(p) ==
  /\ \A i \in 1..Len(p) : p[i] \notin {" ", "(", ")", "[", "]", "\\", "|"}
  /\ \A i \in 1..(Len(p) - 1) : ~(p[i] = "?" /\ p[i + 1] = "!")
Rule5(p) == 2 < Len(p) /\ Len(p) < 200
Rule6(p) ==
  \E i \in 1..(Len(p) - 2) : p[i] = "/" /\ p[i + 1] = ":" /\ p[i + 2] \in Letter
SixRules(p) ==
  Rule1(p) /\ Rule2(p) /\ Rule3(p) /\ Rule4(p) /\ Rule5(p) /\ Rule6(p)

\* C4: every string extractPaths returns stands in the content between two
\* occurrences of the same quote character and satisfies the six rules; the
\* literal /api/search?q=(test) is never returned.
C4_ReturnedAreMatchingQuotedValid ==
  epc = "done" =>
    /\ \A k \in 1..Len(returned) :
         EnclosedInMatchingQuotes(content, returned[k]) /\ SixRules(returned[k])
    /\ SubSeq(SearchLiteral, 2, Len(SearchLiteral) - 1) \notin Range(returned)

\* The interiors of the content's literals: between two occurrences of the
\* same quote character, with no quote character inside.
Literals(s) ==
  {SubSeq(s, i + 1, j - 1) : <<i, j>> \in
     {ij \in (1..Len(s)) \X (1..Len(s)) :
        /\ ij[1] < ij[2]
        /\ s[ij[1]] \in Quote
        /\ s[ij[2]] = s[ij[1]]
        /\ \A k \in (ij[1] + 1)..(ij[2] - 1) : s[k] \notin Quote}}

\* C5: every literal of the content whose interior satisfies the six rules
\* is in the returned list, exactly once.
C5_EveryValidLiteralReturnedOnce ==
  epc = "done" =>
    \A p \in Literals(content) :
      SixRules(p) => Cardinality({k \in 1..Len(returned) : returned[k] = p}) = 1

---------------------------------------------------------------------------
(* Properties of replacePaths (under SpecReplace).                         *)

NameCls == Letter \cup Digit \cup {"_", "-"}

\* The template with each marker :name, name in [a-zA-Z][a-zA-Z0-9_-]*,
\* replaced in full by the next placeholder, counting from n.
RECURSIVE MarkersReplaced(_, _, _)
MarkersReplaced(s, i, n) ==
  IF i > Len(s) THEN <<>>
  ELSE IF s[i] = ":" /\ i < Len(s) /\ s[i + 1] \in Letter
       THEN Placeholder(n)
              \o MarkersReplaced(s, RunEnd(s, i + 1, NameCls) + 1, n + 1)
       ELSE <<s[i]>> \o MarkersReplaced(s, i + 1, n)

\* C1: replacePaths replaces the markers :name of the template in full, left
\* to right, by magun4, magun4_1, ..., counting from 0 in every call.
C1_MarkersReplacedInFull ==
  rpc = "done" => replaced = MarkersReplaced(pathStr, 1, 0)

\* d without its trailing slashes.
RECURSIVE StripSlashes(_)
StripSlashes(d) ==
  IF Len(d) > 0 /\ d[Len(d)] = "/" THEN StripSlashes(SubSeq(d, 1, Len(d) - 1))
  ELSE d

\* C9: whatever the number of slashes the domain ends with, the URL is the
\* domain without them followed by the substituted template (which starts
\* with its one /), and the URL never ends with /*.
C9_OneSlashNoWildcard ==
  rpc = "done" =>
    /\ url \in {StripSlashes(domain) \o replaced,
                 StripSlashes(domain) \o SubSeq(replaced, 1, Len(replaced) - 2)}
    /\ ~EndsWith(url, <<"/", "*">>)

---------------------------------------------------------------------------
(* Properties of URL-list mode (under SpecList).                           *)

\* The entries of the query string of a URL.
QueryEntries(u) == SearchParamsEntries(ParseUrl(u).query)

KeysOf(entries) == [i \in 1..Len(entries) |-> entries[i].key]

\* How often k occurs in the sequence.
Occurrences(seq, k) == Cardinality({i \in 1..Len(seq) : seq[i] = k})

\* C2: for every line that yields a URL, the query of that URL has the keys
\* of the line's URL with their numbers of occurrences, in lexicographic
\* order, and its i-th value (from 0) is magun4 for i = 0 and magun4_i
\* otherwise.
C2_SameKeysSortedPlaceholders ==
  \A n \in 1..Len(results) :
    results[n] # Skipped =>
      LET inKeys == KeysOf(QueryEntries(Trim(urlsFile.lines[n])))
          out == QueryEntries(results[n])
          outKeys == KeysOf(out)
      IN /\ \A k \in Range(inKeys) \cup Range(outKeys) :
              Occurrences(outKeys, k) = Occurrences(inKeys, k)
         /\ \A i, j \in 1..Len(out) : i < j => ~StrLess(outKeys[j], outKeys[i])
         /\ \A i \in 1..Len(out) : out[i].value = Placeholder(i - 1)

\* The line is one the specification lets through: not blank, an http or https
\* scheme in any case, a ?, a URL that parses, at least one query entry.
Qualifies(line) ==
  LET t == Trim(line)
  IN /\ t # <<>>
     /\ \E p \in {<<"h", "t", "t", "p", ":", "/", "/">>, <<"h", "t", "t",
         "p", "s", ":", "/", "/">>} :
          Len(t) >= Len(p) /\ ToLower(SubSeq(t, 1, Len(p))) = p
     /\ "?" \in Range(t)
     /\ ParseUrl(t).ok
     /\ Len(QueryEntries(t)) >= 1

\* C8: a line yields a URL only if it qualifies, and every qualifying line
\* yields one that is in the Set, whatever the lines before it; equal lines
\* yield equal results; the loop handles every line before the run ends;
\* and when no line qualifies the run ends with status 0, the message, and
\* no CSPT_magun4_waymore.txt.
C8_OnlyQualifyingLinesYield ==
  /\ \A n \in 1..Len(results) :
       /\ results[n] # Skipped <=> Qualifies(urlsFile.lines[n])
       /\ results[n] # Skipped => results[n] \in Range(output)
       /\ \A m \in 1..Len(results) :
            urlsFile.lines[m] = urlsFile.lines[n] => results[m] = results[n]
  /\ pc = "done" =>
       /\ Len(results) = Len(urlsFile.lines)
       /\ (\A n \in 1..Len(urlsFile.lines) : ~Qualifies(urlsFile.lines[n])) =>
            /\ waymoreTxt = Absent
            /\ exit = "returned"
            /\ "noUrls" \in printed

\* A run over two lines, the first skipped and the second written out.
C8_Witness ==
  /\ pc = "done"
  /\ exit = "returned"
  /\ Len(results) = 2
  /\ results[1] = Skipped
  /\ results[2] # Skipped
  /\ waymoreTxt = results[2]

---------------------------------------------------------------------------
(* Properties of extraction mode (under SpecScan).                         *)

\* The lines of a file.
LinesOf(txt) == Split(txt, "\n")

NoDuplicateLines(txt) ==
  txt # Absent =>
    \A i, j \in 1..Len(LinesOf(txt)) : i # j => LinesOf(txt)[i] # LinesOf(txt)[j]

RECURSIVE JsContents(_)
JsContents(ents) ==
  UNION {IF ents[i].kind = "js" THEN {ents[i].content}
         ELSE IF ents[i].kind = "dir" THEN JsContents(ents[i].ents)
         ELSE {} : i \in 1..Len(ents)}

RECURSIVE Throws(_)
Throws(ents) ==
  \E i \in 1..Len(ents) :
    \/ ents[i].kind \in {"broken", "nolist"}
    \/ ents[i].kind = "dir" /\ Throws(ents[i].ents)

\* The templates of the readable .js files of the tree, as a set.
TemplatesOf(tree) ==
  UNION {Range(extractPaths(c)) : c \in JsContents(tree.ents) \ {Unreadable}}

\* The strings of a set in lexicographic order.
RECURSIVE Ascending(_)
Ascending(S) ==
  IF S = {} THEN <<>>
  ELSE LET m == CHOOSE x \in S : \A y \in S : ~StrLess(y, x)
       IN <<m>> \o Ascending(S \ {m})

\* The elements of a sequence at their first occurrences.
RECURSIVE FirstOccurrences(_)
FirstOccurrences(seq) ==
  IF seq = <<>> THEN <<>>
  ELSE LET front == FirstOccurrences(SubSeq(seq, 1, Len(seq) - 1))
       IN IF seq[Len(seq)] \in Range(front) THEN front
          ELSE Append(front, seq[Len(seq)])

ExpectedPathsTxt(tree) == Join(Ascending(TemplatesOf(tree)), LF)

ExpectedCsptTxt(tree, dom) ==
  LET sorted == Ascending(TemplatesOf(tree))
  IN Join(FirstOccurrences([i \in 1..Len(sorted) |->
                              replacePaths(sorted[i], dom)]), LF)

\* C7: what a run writes and how it ends are functions of the directory
\* (the set of readable .js contents) and the domain alone, whatever the
\* order the entries were listed in: paths.txt is the sorted templates,
\* CSPT_magun4.txt their URLs in order of first occurrence.
C7_OutputsIndependentOfOrder ==
  /\ pathsTxt # Absent => pathsTxt = ExpectedPathsTxt(jsTree)
  /\ csptTxt # Absent => csptTxt = ExpectedCsptTxt(jsTree, argv[4])
  /\ pc = "done" =>
       /\ exit = "uncaught" <=>
            \/ jsTree.kind = "notdir"
            \/ Throws(jsTree.ents)
            \/ TemplatesOf(jsTree) # {} /\ ~cwdWritable
       /\ exit = "returned" =>
            /\ pathsTxt = Absent <=> TemplatesOf(jsTree) = {}
            /\ csptTxt = Absent <=> TemplatesOf(jsTree) = {}
       /\ exit = "uncaught" => pathsTxt = Absent /\ csptTxt = Absent

\* A finished run that met the files in another order than the directory
\* holds them, and the templates in another order than the sorted one.
C7_Witness ==
  /\ pc = "done"
  /\ exit = "returned"
  /\ csptTxt # Absent
  /\ Len(jsTree.ents) >= 2
  /\ Len(jsFiles) >= 2
  /\ jsTree.ents[1].kind = "js"
  /\ jsTree.ents[2].kind = "js"
  /\ jsFiles[1] = jsTree.ents[2].content
  /\ jsFiles[1] # jsFiles[2]
  /\ Unreadable \notin Range(jsFiles)
  /\ allPaths # PathsArray(allPaths)

---------------------------------------------------------------------------
(* Properties of any run (under Spec).                                     *)

\* C10: no run ends through an uncaught exception; a directory that does
\* not exist gives the no-paths outcome, status 0 and no output file.
C10_NoUncaughtException ==
  pc = "done" =>
    /\ exit \in {"returned", "exit1"}
    /\ ("scanning" \in printed /\ jsTree.kind = "missing") =>
         /\ "noPaths" \in printed
         /\ exit = "returned"
         /\ pathsTxt = Absent /\ csptTxt = Absent /\ waymoreTxt = Absent

Flags == {FlagJs, FlagD, FlagUrls}

\* The flag stands on the command line followed by a value: an argument
\* that is not empty and not a flag.
Given(flag) ==
  \E i \in 1..(Len(argv) - 1) :
    argv[i] = flag /\ argv[i + 1] # <<>> /\ argv[i + 1] \notin Flags

ListModeRan == "processing" \in printed
ExtractionRan == "scanning" \in printed
NoFileWritten == pathsTxt = Absent /\ csptTxt = Absent /\ waymoreTxt = Absent

\* C3 as stated: the mode follows from the flags that stand on the
\* command line.
C3_ModeByFlagsOnCommandLine ==
  pc = "done" =>
    IF Given(FlagUrls)
    THEN ListModeRan /\ ~ExtractionRan /\ pathsTxt = Absent /\ csptTxt = Absent
    ELSE IF Given(FlagJs) /\ Given(FlagD)
    THEN ExtractionRan /\ ~ListModeRan /\ waymoreTxt = Absent
    ELSE "usage" \in printed /\ exit = "exit1" /\ NoFileWritten

\* The flags a scan from the left recognises from index i on: a flag counts
\* when a non-empty argument follows it, and that argument is then passed
\* over, whatever it is.
RECURSIVE Recognised(_, _)
Recognised(a, i) ==
  IF i > Len(a) THEN {}
  ELSE IF a[i] \in Flags /\ i < Len(a) /\ a[i + 1] # <<>>
       THEN {a[i]} \cup Recognised(a, i + 2)
       ELSE Recognised(a, i + 1)

\* C3 as amended: the mode follows from the flags the scan recognises.
C3_ModeByRecognisedFlags ==
  pc = "done" =>
    IF FlagUrls \in Recognised(argv, 1)
    THEN ListModeRan /\ ~ExtractionRan /\ pathsTxt = Absent /\ csptTxt = Absent
    ELSE IF {FlagJs, FlagD} \subseteq Recognised(argv, 1)
    THEN ExtractionRan /\ ~ListModeRan /\ waymoreTxt = Absent
    ELSE "usage" \in printed /\ exit = "exit1" /\ NoFileWritten

\* A finished run in list mode whose command line also gave -js and -d.
C3_Witness ==
  /\ pc = "done"
  /\ Recognised(argv, 1) = Flags
  /\ ListModeRan
  /\ waymoreTxt # Absent
=============================================================================
